---- MODULE Spec2Model ----
(***************************************************************************)
(* Model of embedded-hal-bus RefCellDevice::transaction                    *)
(* (src/embedded-hal-bus/src/spi/refcell.rs).                              *)
(*                                                                         *)
(* Several RefCellDevice instances share one RefCell<BUS>.  Every call the *)
(* transaction makes into a collaborator (CS pin, bus, delay provider) is  *)
(* one step, because a collaborator may re-enter another device of the     *)
(* same bus while the call is running.  Each collaborator call may fail    *)
(* with any error of its error type.                                       *)
(***************************************************************************)
EXTENDS Integers, Sequences, FiniteSets, TLC

\* ---- bounds of the model ----
NumDevices == 2
MaxOps == 2

Devices == 1..NumDevices

\* ---- values ----
\* BUS::Error and CS::Error values a collaborator can report
BusErrors == {"B1", "B2"}
CsErrors == {"P1", "P2"}
OK == "ok"
PANIC == "panic"
BusResults == {OK} \cup BusErrors
PinResults == {OK} \cup CsErrors

\* Operation variants matched in transaction(); the argument stands for the
\* buffer(s) or the microsecond count carried by the variant
OpKinds == {"Read", "Write", "Transfer", "TransferInPlace", "DelayUs"}
OpArgs == {100}
Operation == [kind : OpKinds, arg : OpArgs]

RECURSIVE SeqsUpTo(_, _)
SeqsUpTo(S, n) ==
    IF n = 0 THEN {<<>>}
    ELSE LET shorter == SeqsUpTo(S, n - 1)
         IN shorter \cup {Append(s, x) : s \in {t \in shorter : Len(t) = n - 1}, x \in S}

OperationLists == SeqsUpTo(Operation, MaxOps)

\* faulty variant: Transfer is forwarded to transfer_in_place
BusCall_TransferInPlace(kind) ==
    CASE kind = "Read" -> "read"
      [] kind = "Write" -> "write"
      [] kind = "Transfer" -> "transfer_in_place"
      [] kind = "TransferInPlace" -> "transfer_in_place"
      [] kind = "DelayUs" -> "flush"

\* the SpiBus primitive an Operation variant is forwarded to
BusCall(kind) ==
    CASE kind = "Read" -> "read"
      [] kind = "Write" -> "write"
      [] kind = "Transfer" -> "transfer"
      [] kind = "TransferInPlace" -> "transfer_in_place"
      [] kind = "DelayUs" -> "flush"

\* Result<(), DeviceError<BUS::Error, CS::Error>>
ResOk == [tag |-> "Ok", err |-> "none"]
DeviceErrorSpi(e) == [tag |-> "Spi", err |-> e]
DeviceErrorCs(e) == [tag |-> "Cs", err |-> e]
NoResult == [tag |-> "None", err |-> "none"]

VARIABLES
    borrow,      \* RefCell<BUS> borrow state: 0 = unborrowed, d = mutably borrowed by device d
    pc,          \* pc[d]: position of device d inside transaction()
    operations,  \* operations[d]: the slice passed to the running call
    idx,         \* idx[d]: position of the iter_mut() iterator (1-based)
    op_res,      \* op_res[d]
    flush_res,   \* flush_res[d]
    cs_res,      \* cs_res[d]
    result,      \* result[d]: value the running call is about to return
    cs_line,     \* cs_line[d]: electrical state of the CS pin owned by d
    delay,       \* delay[d]: "Delay" (built by new) or "NoDelay" (built by new_no_delay)
    log,         \* calls issued to pins, bus and delay providers by the calls in progress
    panicked     \* a panic has been raised: the panic handler does not return to
                 \* the devices, so nothing runs after it

vars == <<borrow, pc, operations, idx, op_res, flush_res, cs_res, result, cs_line, delay, log, panicked>>

Call(d, name, r, i, a) == [dev |-> d, call |-> name, res |-> r, idx |-> i, arg |-> a]

\* state of a pin after set_low/set_high returned r: a call that succeeded
\* drove the pin to target; a call that failed may or may not have driven it
PinOutcomes(line, target, r) == IF r = OK THEN {target} ELSE {line, target}

\* faulty variant: the final flush is skipped when the list is empty
AfterOp_NoFlushWhenEmpty(d, i) ==
    IF Len(operations[d]) = 0 THEN "set_high"
    ELSE IF i > Len(operations[d]) THEN "flush" ELSE "ops"

\* where try_for_each continues once the iterator stands at position i
AfterOp(d, i) == IF i > Len(operations[d]) THEN "flush" ELSE "ops"

\* faulty variant: flush_res is examined before op_res
Outcome_FlushFirst(o, f, c) ==
    IF f # OK THEN DeviceErrorSpi(f)
    ELSE IF o # OK THEN DeviceErrorSpi(o)
    ELSE IF c # OK THEN DeviceErrorCs(c)
    ELSE ResOk

\* faulty variant: the result of set_high is dropped
Outcome_IgnoreCs(o, f, c) ==
    IF o # OK THEN DeviceErrorSpi(o)
    ELSE IF f # OK THEN DeviceErrorSpi(f)
    ELSE ResOk

\* lines 83-87: the error priority of the returned value
Outcome(o, f, c) ==
    IF o # OK THEN DeviceErrorSpi(o)
    ELSE IF f # OK THEN DeviceErrorSpi(f)
    ELSE IF c # OK THEN DeviceErrorCs(c)
    ELSE ResOk

\* the bus is shared by one device built with new(bus, cs, delay) and by
\* devices built with new_no_delay(bus, cs)
DelayOf(d) == IF d = 1 THEN "Delay" ELSE "NoDelay"

Init ==
    /\ borrow = 0
    /\ pc = [d \in Devices |-> "idle"]
    /\ operations = [d \in Devices |-> <<>>]
    /\ idx = [d \in Devices |-> 1]
    /\ op_res = [d \in Devices |-> OK]
    /\ flush_res = [d \in Devices |-> OK]
    /\ cs_res = [d \in Devices |-> OK]
    /\ result = [d \in Devices |-> NoResult]
    /\ cs_line = [d \in Devices |-> "high"]
    /\ delay = [d \in Devices |-> DelayOf(d)]
    /\ log = <<>>
    /\ panicked = FALSE

\* faulty variant: the bus is taken without looking at the borrow flag
BorrowMut_NoCheck(d) ==
    /\ ~panicked
    /\ pc[d] = "idle"
    /\ borrow' = d
    /\ pc' = [pc EXCEPT ![d] = "set_low"]
    /\ \E o \in OperationLists : operations' = [operations EXCEPT ![d] = o]
    /\ idx' = [idx EXCEPT ![d] = 1]
    /\ op_res' = [op_res EXCEPT ![d] = OK]
    /\ flush_res' = [flush_res EXCEPT ![d] = OK]
    /\ cs_res' = [cs_res EXCEPT ![d] = OK]
    /\ result' = [result EXCEPT ![d] = NoResult]
    /\ UNCHANGED <<cs_line, delay, log, panicked>>

\* faulty variant: CS is asserted before the bus is borrowed
BorrowMut_SetLowFirst(d) ==
    /\ ~panicked
    /\ pc[d] = "idle"
    /\ log' = Append(log, Call(d, "set_low", OK, 0, 0))
    /\ cs_line' = [cs_line EXCEPT ![d] = "low"]
    /\ IF borrow # 0
       THEN /\ panicked' = TRUE
            /\ UNCHANGED <<borrow, pc, operations, idx, op_res, flush_res, cs_res, result>>
       ELSE /\ borrow' = d
            /\ \E o \in OperationLists :
                /\ operations' = [operations EXCEPT ![d] = o]
                /\ pc' = [pc EXCEPT ![d] = IF Len(o) = 0 THEN "flush" ELSE "ops"]
            /\ idx' = [idx EXCEPT ![d] = 1]
            /\ op_res' = [op_res EXCEPT ![d] = OK]
            /\ flush_res' = [flush_res EXCEPT ![d] = OK]
            /\ cs_res' = [cs_res EXCEPT ![d] = OK]
            /\ result' = [result EXCEPT ![d] = NoResult]
            /\ UNCHANGED panicked
    /\ UNCHANGED delay

\* lines 62-63: transaction(operations) is entered and calls
\* self.bus.borrow_mut(): RefCell panics when the bus is already borrowed
BorrowMut(d) ==
    /\ ~panicked
    /\ pc[d] = "idle"
    /\ IF borrow # 0
       THEN /\ panicked' = TRUE
            /\ UNCHANGED <<borrow, pc, operations, idx, op_res, flush_res, cs_res, result>>
       ELSE /\ borrow' = d
            /\ pc' = [pc EXCEPT ![d] = "set_low"]
            /\ \E o \in OperationLists : operations' = [operations EXCEPT ![d] = o]
            /\ idx' = [idx EXCEPT ![d] = 1]
            /\ op_res' = [op_res EXCEPT ![d] = OK]
            /\ flush_res' = [flush_res EXCEPT ![d] = OK]
            /\ cs_res' = [cs_res EXCEPT ![d] = OK]
            /\ result' = [result EXCEPT ![d] = NoResult]
            /\ UNCHANGED panicked
    /\ UNCHANGED <<cs_line, delay, log>>

\* faulty variant: the error of set_low is remembered, not returned at once
SetLow_Continue(d) ==
    /\ ~panicked
    /\ pc[d] = "set_low"
    /\ \E r \in PinResults :
        /\ log' = Append(log, Call(d, "set_low", r, 0, 0))
        /\ \E l \in PinOutcomes(cs_line[d], "low", r) : cs_line' = [cs_line EXCEPT ![d] = l]
        /\ pc' = [pc EXCEPT ![d] = AfterOp(d, 1)]
        /\ result' = [result EXCEPT ![d] = IF r = OK THEN NoResult ELSE DeviceErrorCs(r)]
    /\ UNCHANGED <<borrow, operations, idx, op_res, flush_res, cs_res, delay, panicked>>

\* line 65: self.cs.set_low().map_err(DeviceError::Cs)?
SetLow(d) ==
    /\ ~panicked
    /\ pc[d] = "set_low"
    /\ \E r \in PinResults :
        /\ log' = Append(log, Call(d, "set_low", r, 0, 0))
        /\ \E l \in PinOutcomes(cs_line[d], "low", r) : cs_line' = [cs_line EXCEPT ![d] = l]
        /\ IF r = OK
           THEN /\ pc' = [pc EXCEPT ![d] = AfterOp(d, 1)]
                /\ UNCHANGED result
           ELSE /\ pc' = [pc EXCEPT ![d] = "done"]
                /\ result' = [result EXCEPT ![d] = DeviceErrorCs(r)]
    /\ UNCHANGED <<borrow, operations, idx, op_res, flush_res, cs_res, delay, panicked>>

\* faulty variant: op_res is propagated with ? before the flush and set_high
ExecOp_ReturnOnError(d) ==
    /\ ~panicked
    /\ pc[d] = "ops"
    /\ idx[d] <= Len(operations[d])
    /\ LET op == operations[d][idx[d]] IN
       \E r \in BusResults :
        /\ log' = Append(log, Call(d, BusCall(op.kind), r, idx[d],
                                   IF op.kind = "DelayUs" THEN 0 ELSE op.arg))
        /\ IF r # OK
           THEN /\ op_res' = [op_res EXCEPT ![d] = r]
                /\ pc' = [pc EXCEPT ![d] = "done"]
                /\ result' = [result EXCEPT ![d] = DeviceErrorSpi(r)]
                /\ UNCHANGED idx
           ELSE IF op.kind = "DelayUs"
           THEN /\ pc' = [pc EXCEPT ![d] = "delay"]
                /\ UNCHANGED <<op_res, idx, result>>
           ELSE /\ idx' = [idx EXCEPT ![d] = idx[d] + 1]
                /\ pc' = [pc EXCEPT ![d] = AfterOp(d, idx[d] + 1)]
                /\ UNCHANGED <<op_res, result>>
    /\ UNCHANGED <<borrow, operations, flush_res, cs_res, cs_line, delay, panicked>>

\* faulty variant: for_each in place of try_for_each: the first error is remembered
\* and the remaining operations are still executed
ExecOp_ContinueAfterError(d) ==
    /\ ~panicked
    /\ pc[d] = "ops"
    /\ idx[d] <= Len(operations[d])
    /\ LET op == operations[d][idx[d]] IN
       \E r \in BusResults :
        /\ log' = Append(log, Call(d, BusCall(op.kind), r, idx[d],
                                   IF op.kind = "DelayUs" THEN 0 ELSE op.arg))
        /\ op_res' = [op_res EXCEPT ![d] = IF op_res[d] = OK THEN r ELSE op_res[d]]
        /\ IF r = OK /\ op.kind = "DelayUs"
           THEN /\ pc' = [pc EXCEPT ![d] = "delay"]
                /\ UNCHANGED idx
           ELSE /\ idx' = [idx EXCEPT ![d] = idx[d] + 1]
                /\ pc' = [pc EXCEPT ![d] = AfterOp(d, idx[d] + 1)]
    /\ UNCHANGED <<borrow, operations, flush_res, cs_res, result, cs_line, delay, panicked>>

\* faulty variant: an operation that fails is attempted a second time
ExecOp_RetryOnce(d) ==
    /\ ~panicked
    /\ pc[d] = "ops"
    /\ idx[d] <= Len(operations[d])
    /\ LET op == operations[d][idx[d]]
           retried == log # <<>> /\ log[Len(log)].idx = idx[d] /\ log[Len(log)].res # OK
       IN
       \E r \in BusResults :
        /\ log' = Append(log, Call(d, BusCall(op.kind), r, idx[d],
                                   IF op.kind = "DelayUs" THEN 0 ELSE op.arg))
        /\ IF r # OK /\ ~retried
           THEN UNCHANGED <<op_res, pc, idx>>
           ELSE IF r # OK
           THEN /\ op_res' = [op_res EXCEPT ![d] = r]
                /\ pc' = [pc EXCEPT ![d] = "flush"]
                /\ UNCHANGED idx
           ELSE IF op.kind = "DelayUs"
           THEN /\ pc' = [pc EXCEPT ![d] = "delay"]
                /\ UNCHANGED <<op_res, idx>>
           ELSE /\ idx' = [idx EXCEPT ![d] = idx[d] + 1]
                /\ pc' = [pc EXCEPT ![d] = AfterOp(d, idx[d] + 1)]
                /\ UNCHANGED op_res
    /\ UNCHANGED <<borrow, operations, flush_res, cs_res, result, cs_line, delay, panicked>>

\* faulty variant: the result of the flush of a DelayUs is dropped and the
\* delay is performed anyway
ExecOp_DelayIgnoresFlushError(d) ==
    /\ ~panicked
    /\ pc[d] = "ops"
    /\ idx[d] <= Len(operations[d])
    /\ LET op == operations[d][idx[d]] IN
       \E r \in BusResults :
        /\ log' = Append(log, Call(d, BusCall(op.kind), r, idx[d],
                                   IF op.kind = "DelayUs" THEN 0 ELSE op.arg))
        /\ IF op.kind = "DelayUs"
           THEN /\ pc' = [pc EXCEPT ![d] = "delay"]
                /\ UNCHANGED <<op_res, idx>>
           ELSE IF r # OK
           THEN /\ op_res' = [op_res EXCEPT ![d] = r]
                /\ pc' = [pc EXCEPT ![d] = "flush"]
                /\ UNCHANGED idx
           ELSE /\ idx' = [idx EXCEPT ![d] = idx[d] + 1]
                /\ pc' = [pc EXCEPT ![d] = AfterOp(d, idx[d] + 1)]
                /\ UNCHANGED op_res
    /\ UNCHANGED <<borrow, operations, flush_res, cs_res, result, cs_line, delay, panicked>>

\* faulty variant: after a failed operation the transaction waits for the
\* bus instead of going on to the cleanup
ExecOp_HangOnError(d) ==
    /\ ~panicked
    /\ pc[d] = "ops"
    /\ idx[d] <= Len(operations[d])
    /\ LET op == operations[d][idx[d]] IN
       \E r \in BusResults :
        /\ log' = Append(log, Call(d, BusCall(op.kind), r, idx[d],
                                   IF op.kind = "DelayUs" THEN 0 ELSE op.arg))
        /\ IF r # OK
           THEN /\ op_res' = [op_res EXCEPT ![d] = r]
                /\ pc' = [pc EXCEPT ![d] = "wait"]
                /\ UNCHANGED idx
           ELSE IF op.kind = "DelayUs"
           THEN /\ pc' = [pc EXCEPT ![d] = "delay"]
                /\ UNCHANGED <<op_res, idx>>
           ELSE /\ idx' = [idx EXCEPT ![d] = idx[d] + 1]
                /\ pc' = [pc EXCEPT ![d] = AfterOp(d, idx[d] + 1)]
                /\ UNCHANGED op_res
    /\ UNCHANGED <<borrow, operations, flush_res, cs_res, result, cs_line, delay, panicked>>

\* faulty variant: DelayUs goes to the delay provider without flushing the bus
ExecOp_DelayNoFlush(d) ==
    /\ ~panicked
    /\ pc[d] = "ops"
    /\ idx[d] <= Len(operations[d])
    /\ LET op == operations[d][idx[d]] IN
       IF op.kind = "DelayUs"
       THEN /\ pc' = [pc EXCEPT ![d] = "delay"]
            /\ UNCHANGED <<log, op_res, idx>>
       ELSE \E r \in BusResults :
            /\ log' = Append(log, Call(d, BusCall(op.kind), r, idx[d], op.arg))
            /\ IF r # OK
               THEN /\ op_res' = [op_res EXCEPT ![d] = r]
                    /\ pc' = [pc EXCEPT ![d] = "flush"]
                    /\ UNCHANGED idx
               ELSE /\ idx' = [idx EXCEPT ![d] = idx[d] + 1]
                    /\ pc' = [pc EXCEPT ![d] = AfterOp(d, idx[d] + 1)]
                    /\ UNCHANGED op_res
    /\ UNCHANGED <<borrow, operations, flush_res, cs_res, result, cs_line, delay, panicked>>

\* lines 67-73: one step of try_for_each: the bus call of the next operation
\* (for DelayUs: the flush of line 73)
ExecOp(d) ==
    /\ ~panicked
    /\ pc[d] = "ops"
    /\ idx[d] <= Len(operations[d])
    /\ LET op == operations[d][idx[d]] IN
       \E r \in BusResults :
        /\ log' = Append(log, Call(d, BusCall(op.kind), r, idx[d],
                                   IF op.kind = "DelayUs" THEN 0 ELSE op.arg))
        /\ IF r # OK
           THEN /\ op_res' = [op_res EXCEPT ![d] = r]
                /\ pc' = [pc EXCEPT ![d] = "flush"]
                /\ UNCHANGED idx
           ELSE IF op.kind = "DelayUs"
           THEN /\ pc' = [pc EXCEPT ![d] = "delay"]
                /\ UNCHANGED <<op_res, idx>>
           ELSE /\ idx' = [idx EXCEPT ![d] = idx[d] + 1]
                /\ pc' = [pc EXCEPT ![d] = AfterOp(d, idx[d] + 1)]
                /\ UNCHANGED op_res
    /\ UNCHANGED <<borrow, operations, flush_res, cs_res, result, cs_line, delay, panicked>>

\* lines 74-75: self.delay.delay_us(*us); NoDelay::delay_us panics
DelayUs(d) ==
    /\ ~panicked
    /\ pc[d] = "delay"
    /\ LET op == operations[d][idx[d]] IN
       IF delay[d] = "NoDelay"
       THEN /\ log' = Append(log, Call(d, "delay_us", PANIC, idx[d], op.arg))
            /\ panicked' = TRUE
            /\ UNCHANGED <<pc, idx>>
       ELSE /\ log' = Append(log, Call(d, "delay_us", OK, idx[d], op.arg))
            /\ idx' = [idx EXCEPT ![d] = idx[d] + 1]
            /\ pc' = [pc EXCEPT ![d] = AfterOp(d, idx[d] + 1)]
            /\ UNCHANGED panicked
    /\ UNCHANGED <<borrow, operations, op_res, flush_res, cs_res, result, cs_line, delay>>

\* faulty variant: bus.flush()? returns before set_high when the final flush fails
Flush_ReturnOnError(d) ==
    /\ ~panicked
    /\ pc[d] = "flush"
    /\ \E r \in BusResults :
        /\ log' = Append(log, Call(d, "flush", r, 0, 0))
        /\ flush_res' = [flush_res EXCEPT ![d] = r]
        /\ IF r = OK
           THEN /\ pc' = [pc EXCEPT ![d] = "set_high"]
                /\ UNCHANGED result
           ELSE /\ pc' = [pc EXCEPT ![d] = "done"]
                /\ result' = [result EXCEPT ![d] = DeviceErrorSpi(r)]
    /\ UNCHANGED <<borrow, operations, idx, op_res, cs_res, cs_line, delay, panicked>>

\* line 80: let flush_res = bus.flush()
Flush(d) ==
    /\ ~panicked
    /\ pc[d] = "flush"
    /\ \E r \in BusResults :
        /\ log' = Append(log, Call(d, "flush", r, 0, 0))
        /\ flush_res' = [flush_res EXCEPT ![d] = r]
    /\ pc' = [pc EXCEPT ![d] = "set_high"]
    /\ UNCHANGED <<borrow, operations, idx, op_res, cs_res, result, cs_line, delay, panicked>>

\* lines 81-87: let cs_res = self.cs.set_high(), then the returned value
SetHigh(d) ==
    /\ ~panicked
    /\ pc[d] = "set_high"
    /\ \E r \in PinResults :
        /\ log' = Append(log, Call(d, "set_high", r, 0, 0))
        /\ \E l \in PinOutcomes(cs_line[d], "high", r) : cs_line' = [cs_line EXCEPT ![d] = l]
        /\ cs_res' = [cs_res EXCEPT ![d] = r]
        /\ result' = [result EXCEPT ![d] = Outcome(op_res[d], flush_res[d], r)]
    /\ pc' = [pc EXCEPT ![d] = "done"]
    /\ UNCHANGED <<borrow, operations, idx, op_res, flush_res, delay, panicked>>

\* faulty variant: the RefMut is leaked on the early return of line 65
Return_LeakOnEarlyReturn(d) ==
    /\ ~panicked
    /\ pc[d] = "done"
    /\ borrow' = IF Len(log) = 1 THEN borrow ELSE 0
    /\ pc' = [pc EXCEPT ![d] = "idle"]
    /\ operations' = [operations EXCEPT ![d] = <<>>]
    /\ idx' = [idx EXCEPT ![d] = 1]
    /\ op_res' = [op_res EXCEPT ![d] = OK]
    /\ flush_res' = [flush_res EXCEPT ![d] = OK]
    /\ cs_res' = [cs_res EXCEPT ![d] = OK]
    /\ result' = [result EXCEPT ![d] = NoResult]
    /\ log' = <<>>
    /\ UNCHANGED <<cs_line, delay, panicked>>

\* line 88 (and the early return of line 65): the call returns, the RefMut
\* taken at line 63 is dropped
Return(d) ==
    /\ ~panicked
    /\ pc[d] = "done"
    /\ borrow' = 0
    /\ pc' = [pc EXCEPT ![d] = "idle"]
    /\ operations' = [operations EXCEPT ![d] = <<>>]
    /\ idx' = [idx EXCEPT ![d] = 1]
    /\ op_res' = [op_res EXCEPT ![d] = OK]
    /\ flush_res' = [flush_res EXCEPT ![d] = OK]
    /\ cs_res' = [cs_res EXCEPT ![d] = OK]
    /\ result' = [result EXCEPT ![d] = NoResult]
    /\ log' = <<>>
    /\ UNCHANGED <<cs_line, delay, panicked>>

Next ==
    \/ \E d \in Devices : BorrowMut(d)
    \/ \E d \in Devices : SetLow(d)
    \/ \E d \in Devices : ExecOp(d)
    \/ \E d \in Devices : DelayUs(d)
    \/ \E d \in Devices : Flush(d)
    \/ \E d \in Devices : SetHigh(d)
    \/ \E d \in Devices : Return(d)

Spec == Init /\ [][Next]_vars

\* transaction() is synchronous code: once a collaborator call has returned,
\* the statement after it is executed.  Nothing obliges a caller to start a
\* transaction.
Running(d) ==
    SetLow(d) \/ ExecOp(d) \/ DelayUs(d) \/ Flush(d) \/ SetHigh(d) \/ Return(d)

FairSpec == Spec /\ \A d \in Devices : WF_vars(Running(d))

TypeOK ==
    /\ borrow \in {0} \cup Devices
    /\ pc \in [Devices -> {"idle", "set_low", "ops", "delay", "flush", "set_high", "done"}]
    /\ \A d \in Devices : operations[d] \in OperationLists
    /\ result \in [Devices -> {NoResult, ResOk} \cup {DeviceErrorSpi(e) : e \in BusErrors}
                                  \cup {DeviceErrorCs(e) : e \in CsErrors}]
    /\ cs_line \in [Devices -> {"high", "low"}]
    /\ panicked \in BOOLEAN

\* ---- reading the call log ----
LogOf(d) == SelectSeq(log, LAMBDA c : c.dev = d)
Count(l, name) == Cardinality({i \in DOMAIN l : l[i].call = name})
Last(l) == l[Len(l)]
\* the calls of the operation phase (lines 67-77) and the positions that failed
OpCalls(d) == SelectSeq(log, LAMBDA c : c.dev = d /\ c.idx > 0)
Failed(l) == {i \in DOMAIN l : l[i].res # OK}
\* the running call of d got past line 65
Asserted(d) == LogOf(d) # <<>> /\ LogOf(d)[1].call = "set_low" /\ LogOf(d)[1].res = OK
\* no set_low/set_high call of the running call of d failed
PinsOk(d) == \A i \in DOMAIN LogOf(d) :
    LogOf(d)[i].call \in {"set_low", "set_high"} => LogOf(d)[i].res = OK

\* C1 (as stated): every transaction that returns has called set_low exactly
\* once, as its first call, and set_high exactly once, as its last call.
C1_Original ==
    \A d \in Devices : pc[d] = "done" =>
        LET l == LogOf(d) IN
        /\ Len(l) >= 2
        /\ l[1].call = "set_low" /\ Count(l, "set_low") = 1
        /\ Last(l).call = "set_high" /\ Count(l, "set_high") = 1

\* C1 (amended): every transaction that returns has called set_low exactly
\* once, as its first call; when that set_low succeeded, set_high was called
\* exactly once, as the last call; when it failed, set_low is the only call of
\* the transaction and set_high was not called at all.
C1_CsBracket ==
    \A d \in Devices : pc[d] = "done" =>
        LET l == LogOf(d) IN
        /\ Len(l) >= 1
        /\ l[1].call = "set_low" /\ Count(l, "set_low") = 1
        /\ l[1].res = OK => /\ Len(l) >= 2
                            /\ Last(l).call = "set_high"
                            /\ Count(l, "set_high") = 1
        /\ l[1].res # OK => Len(l) = 1 /\ Count(l, "set_high") = 0

\* a transaction that failed at its only forwarded operation and was bracketed
C1_Witness ==
    \E d \in Devices : /\ pc[d] = "done" /\ Asserted(d) /\ op_res[d] # OK
                          /\ Last(LogOf(d)).call = "set_high"
                          /\ Len(LogOf(d)) = 4

\* C2 (as stated): whenever no transaction is in progress on a device, its
\* CS line is high.
C2_Original ==
    \A d \in Devices : pc[d] = "idle" => cs_line[d] = "high"

\* C2 (amended): a transaction whose set_low and set_high both succeeded
\* leaves the CS line high when it returns, whatever the operations and the
\* final flush reported, and the line of a device keeps its state while no
\* transaction is in progress on it.
C2_CsDeasserted ==
    [][\A d \in Devices :
        /\ (pc[d] = "done" /\ pc'[d] = "idle" /\ PinsOk(d)) => cs_line'[d] = "high"
        /\ (pc[d] = "idle" /\ pc'[d] = "idle") => cs_line'[d] = cs_line[d]]_vars

\* about to return with both pin calls successful after a failed operation
\* and a failed final flush
C2_Witness ==
    \E d \in Devices : /\ pc[d] = "done" /\ PinsOk(d) /\ Asserted(d)
                       /\ op_res[d] # OK /\ flush_res[d] # OK
                       /\ cs_line[d] = "high"

\* C3: the operations forwarded to the bus are operations 1, 2, ... in list
\* order, each once and by its matching primitive, up to and including the
\* first one that fails (all of them if none fails); nothing follows a
\* failure.
C3_OrderedPrefix ==
    \A d \in Devices :
        LET oc == OpCalls(d)
            \* the bus call of each operation (the delay call follows its flush)
            fw == SelectSeq(oc, LAMBDA c : c.call # "delay_us")
        IN
        /\ \A j \in DOMAIN fw : /\ fw[j].idx = j
                                /\ j <= Len(operations[d])
                                /\ fw[j].call = BusCall(operations[d][j].kind)
        /\ \A i \in Failed(oc) : i = Len(oc)
        /\ (pc[d] \in {"flush", "set_high", "done"} /\ Asserted(d)) =>
              IF op_res[d] = OK
              THEN Failed(oc) = {} /\ Len(fw) = Len(operations[d])
              ELSE Failed(oc) = {Len(oc)} /\ Last(oc).res = op_res[d]

\* the first of two operations failed: the second was never forwarded
C3_Witness ==
    \E d \in Devices : /\ pc[d] = "done" /\ Len(operations[d]) = 2
                       /\ Len(OpCalls(d)) = 1 /\ OpCalls(d)[1].res # OK
                       /\ OpCalls(d)[1].idx = 1

\* C4: a transaction that asserted CS successfully ends with the final
\* flush followed by set_high, whether or not an operation failed and
\* whether or not the final flush failed.
C4_AlwaysCleanup ==
    \A d \in Devices :
        LET l == LogOf(d) IN
        /\ (pc[d] = "done" /\ Asserted(d)) =>
              /\ Len(l) >= 3
              /\ l[Len(l) - 1].call = "flush" /\ l[Len(l) - 1].idx = 0
              /\ l[Len(l) - 1].res = flush_res[d]
              /\ Last(l).call = "set_high"
              /\ Count(l, "set_high") = 1
        /\ pc[d] = "set_high" => Last(l).call = "flush" /\ Last(l).idx = 0

\* set_high was called although both an operation and the final flush failed
C4_Witness ==
    \E d \in Devices : /\ pc[d] = "done" /\ Asserted(d)
                       /\ op_res[d] # OK /\ flush_res[d] # OK
                       /\ Last(LogOf(d)).call = "set_high"

\* the value the priority rule selects from the calls a transaction made
FirstFailure(l) == l[CHOOSE i \in Failed(l) : \A j \in Failed(l) : i <= j]
Priority(d) ==
    LET oc == OpCalls(d)
        fin == SelectSeq(LogOf(d), LAMBDA c : c.call = "flush" /\ c.idx = 0)
        sh == SelectSeq(LogOf(d), LAMBDA c : c.call = "set_high")
    IN IF Failed(oc) # {} THEN DeviceErrorSpi(FirstFailure(oc).res)
       ELSE IF Failed(fin) # {} THEN DeviceErrorSpi(FirstFailure(fin).res)
       ELSE IF Failed(sh) # {} THEN DeviceErrorCs(FirstFailure(sh).res)
       ELSE ResOk

\* C5: a transaction that got past set_low returns the error of the failed
\* operation as DeviceError::Spi if an operation failed, else the error of the
\* final flush as DeviceError::Spi if it failed, else the error of set_high as
\* DeviceError::Cs if it failed, else Ok; the error value is the one the
\* chosen call reported.
C5_ErrorPriority ==
    \A d \in Devices : (pc[d] = "done" /\ Asserted(d)) => result[d] = Priority(d)

\* an operation, the final flush and set_high all failed with different
\* errors, and the operation's error is returned
C5_Witness ==
    \E d \in Devices : /\ pc[d] = "done" /\ Asserted(d)
                       /\ op_res[d] = "B1" /\ flush_res[d] = "B2" /\ cs_res[d] # OK
                       /\ result[d] = DeviceErrorSpi("B1")

\* every step of the transaction of d was made and succeeded
AllStepsOk(d) ==
    LET l == LogOf(d) IN
    /\ Failed(l) = {}
    /\ Asserted(d)
    /\ \A j \in DOMAIN operations[d] :
          /\ \E i \in DOMAIN l : l[i].idx = j /\ l[i].call = BusCall(operations[d][j].kind)
          /\ operations[d][j].kind = "DelayUs" =>
                \E i \in DOMAIN l : l[i].idx = j /\ l[i].call = "delay_us"
    /\ \E i \in DOMAIN l : l[i].call = "flush" /\ l[i].idx = 0
    /\ Last(l).call = "set_high"

\* C6: transaction() returns Ok exactly when set_low, every operation of the
\* list (with the flush of each DelayUs), the final flush and set_high were
\* all made and all succeeded; any failed call makes it return an error.
C6_OkIffAllOk ==
    \A d \in Devices : pc[d] = "done" =>
        /\ result[d] # NoResult
        /\ (result[d] = ResOk) <=> AllStepsOk(d)
        /\ Failed(LogOf(d)) # {} => result[d].tag \in {"Spi", "Cs"}

\* only set_high failed, and the transaction returns an error
C6_Witness ==
    \E d \in Devices : /\ pc[d] = "done" /\ Len(operations[d]) = 2
                       /\ Failed(LogOf(d)) = {Len(LogOf(d))}
                       /\ Last(LogOf(d)).call = "set_high"
                       /\ result[d].tag = "Cs"

\* C7: when set_low fails the transaction returns that pin error as
\* DeviceError::Cs at once: no bus call, no delay call and no further pin
\* call is made.
C7_SetLowFails ==
    \A d \in Devices :
        LET l == LogOf(d) IN
        (l # <<>> /\ l[1].res # OK) =>
            /\ l[1].call = "set_low"
            /\ Len(l) = 1
            /\ pc[d] = "done"
            /\ result[d] = DeviceErrorCs(l[1].res)

\* set_low failed on a transaction that had operations to run
C7_Witness ==
    \E d \in Devices : /\ pc[d] = "done" /\ Len(operations[d]) = 2
                       /\ LogOf(d) = <<Call(d, "set_low", "P2", 0, 0)>>
                       /\ result[d] = DeviceErrorCs("P2")

\* C8: while a transaction holds the bus, every call issued is a call of
\* that transaction and no other device is inside transaction(); a device
\* enters only when the bus is not borrowed, and entering while it is
\* borrowed panics without changing the bus, the devices or the calls issued.
C8_NoInterleaving ==
    /\ [](\A d \in Devices :
            /\ pc[d] # "idle" => borrow = d
            /\ LogOf(d) # <<>> => borrow = d /\ LogOf(d) = log)
    /\ [][\A d \in Devices :
            /\ (pc[d] = "idle" /\ pc'[d] # "idle") => borrow = 0 /\ borrow' = d
            /\ (borrow # 0 /\ BorrowMut(d)) =>
                  panicked' /\ UNCHANGED <<borrow, pc, log, cs_line>>]_vars

\* a second device tried to enter in the middle of a transaction
C8_Witness ==
    /\ panicked
    /\ \E d \in Devices : /\ borrow = d /\ pc[d] = "flush"
                          /\ Len(log) = 2 /\ LogOf(d) = log
                          /\ \E e \in Devices : e # d /\ pc[e] = "idle"

\* C9: when transaction() returns, on every path, the borrow of the bus is
\* released: with no transaction in progress the bus is unborrowed, so the
\* next transaction of any device acquires it.
C9_BorrowReleased ==
    /\ []((\A d \in Devices : pc[d] = "idle") => borrow = 0)
    /\ [][\A d \in Devices : (pc[d] = "done" /\ pc'[d] = "idle") => borrow' = 0]_vars

\* a device whose earlier transaction returned through a failed pin call
\* (its line was left low) has acquired the bus again
C9_Witness ==
    \E d \in Devices : /\ pc[d] = "set_low" /\ cs_line[d] = "low" /\ borrow = d
                       /\ \E e \in Devices : e # d /\ cs_line[e] = "low" /\ pc[e] = "idle"

\* C10: every call of the delay provider is immediately preceded by a
\* successful flush of the bus made for the same DelayUs operation.
C10_FlushBeforeDelay ==
    \A i \in DOMAIN log : log[i].call = "delay_us" =>
        /\ i > 1
        /\ log[i - 1].call = "flush"
        /\ log[i - 1].res = OK
        /\ log[i - 1].dev = log[i].dev
        /\ log[i - 1].idx = log[i].idx

\* two delays were performed in one transaction
C10_Witness ==
    \E d \in Devices : /\ pc[d] = "done"
                       /\ Count(LogOf(d), "delay_us") = 2
                       /\ result[d] = ResOk

\* the reference trace of transaction(ops) on device d with healthy
\* collaborators: CS-low, each operation's primitive in order, final flush,
\* CS-high
RefOp(d, op, j) ==
    CASE op.kind = "Read" -> <<Call(d, "read", OK, j, op.arg)>>
      [] op.kind = "Write" -> <<Call(d, "write", OK, j, op.arg)>>
      [] op.kind = "Transfer" -> <<Call(d, "transfer", OK, j, op.arg)>>
      [] op.kind = "TransferInPlace" -> <<Call(d, "transfer_in_place", OK, j, op.arg)>>
      [] op.kind = "DelayUs" -> <<Call(d, "flush", OK, j, 0), Call(d, "delay_us", OK, j, op.arg)>>

RECURSIVE RefOps(_, _, _)
RefOps(d, ops, j) ==
    IF j > Len(ops) THEN <<>> ELSE RefOp(d, ops[j], j) \o RefOps(d, ops, j + 1)

RefTrace(d, ops) ==
    <<Call(d, "set_low", OK, 0, 0)>> \o RefOps(d, ops, 1)
        \o <<Call(d, "flush", OK, 0, 0), Call(d, "set_high", OK, 0, 0)>>

\* C11: when no call of a transaction failed, the calls it made are exactly
\* the reference trace of its operation list (CS-low, each operation's
\* matching primitive with its argument in list order, DelayUs as flush then
\* delay, one final flush, CS-high) and it returns Ok.
C11_ReferenceTrace ==
    \A d \in Devices : (pc[d] = "done" /\ Failed(LogOf(d)) = {}) =>
        /\ log = RefTrace(d, operations[d])
        /\ result[d] = ResOk

\* [Transfer, DelayUs(100)] ran on healthy collaborators
C11_Witness ==
    \E d \in Devices :
        /\ pc[d] = "done" /\ result[d] = ResOk
        /\ Len(operations[d]) = 2
        /\ operations[d][1].kind = "Transfer" /\ operations[d][2].kind = "DelayUs"
        /\ Len(log) = 6 /\ log[4].call = "delay_us" /\ log[4].arg = 100

C13_PanicsOnAnyDelay ==
    \A d \in Devices :
        (delay[d] = "NoDelay" /\ \E j \in DOMAIN operations[d] : operations[d][j].kind = "DelayUs")
            => pc[d] # "done"

\* the steps of a transaction: a call together with the operation it is made
\* for (0: the CS calls and the final flush)
Step(c) == <<c.call, c.idx>>

\* C14: nothing is retried inside a transaction: every step (set_low, the bus
\* call of operation j, the delay of operation j, the final flush, set_high)
\* appears at most once among the calls of a transaction, so no call is
\* issued again after it failed.
C14_NoRetry ==
    \A d \in Devices :
        LET l == LogOf(d) IN
        /\ \A i, k \in DOMAIN l : Step(l[i]) = Step(l[k]) => i = k
        /\ \A i \in DOMAIN l : l[i].idx > 0 =>
              /\ l[i].idx <= Len(operations[d])
              /\ l[i].call \in {BusCall(operations[d][l[i].idx].kind), "delay_us"}
        /\ Count(l, "set_low") <= 1
        /\ Count(l, "set_high") <= 1

\* the first operation failed and the transaction went on to its cleanup
\* without forwarding it again
C14_Witness ==
    \E d \in Devices :
        /\ pc[d] = "done" /\ Len(operations[d]) = 2
        /\ operations[d][1].kind = "Write"
        /\ Len(log) = 4 /\ log[2].call = "write" /\ log[2].res = "B2"
        /\ log[3].call = "flush" /\ log[3].res = "B1"
        /\ Count(log, "write") = 1

\* C15: when the flush made for a DelayUs operation fails, the delay provider
\* is not called for it, no later operation is executed, the final flush and
\* set_high are still made, and the transaction returns that flush error as
\* DeviceError::Spi.
C15_DelayFlushFails ==
    \A d \in Devices :
        LET l == LogOf(d) IN
        \A i \in DOMAIN l :
            (l[i].call = "flush" /\ l[i].idx > 0 /\ l[i].res # OK) =>
                /\ operations[d][l[i].idx].kind = "DelayUs"
                /\ \A k \in DOMAIN l : l[k].call = "delay_us" => l[k].idx < l[i].idx
                /\ \A k \in DOMAIN l : k > i => l[k].idx = 0
                /\ pc[d] \in {"flush", "set_high", "done"}
                /\ pc[d] = "done" =>
                      /\ Len(l) = i + 2
                      /\ l[i + 1].call = "flush"
                      /\ l[i + 2].call = "set_high"
                      /\ result[d] = DeviceErrorSpi(l[i].res)

\* the flush of a DelayUs that is first of two operations failed; the final
\* flush failed with another error
C15_Witness ==
    \E d \in Devices :
        /\ pc[d] = "done" /\ Len(operations[d]) = 2
        /\ operations[d][1].kind = "DelayUs"
        /\ Len(log) = 4
        /\ log[2] = Call(d, "flush", "B1", 1, 0)
        /\ log[3] = Call(d, "flush", "B2", 0, 0)
        /\ result[d] = DeviceErrorSpi("B1")

\* every operation of the list of d was executed to completion
AllOpsCompleted(d) ==
    \A j \in DOMAIN operations[d] :
        LET op == operations[d][j] IN
        /\ \E i \in DOMAIN log : log[i] = Call(d, BusCall(op.kind), OK, j,
                                               IF op.kind = "DelayUs" THEN 0 ELSE op.arg)
        /\ op.kind = "DelayUs" => \E i \in DOMAIN log : log[i] = Call(d, "delay_us", OK, j, op.arg)

\* C16: a transaction that has been entered eventually returns, unless a
\* collaborator call does not return (a panic); and when it returns Ok every
\* operation of the list, every DelayUs included, has been executed to
\* completion before the return.
C16_Terminates ==
    /\ \A d \in Devices : (pc[d] # "idle") ~> (pc[d] = "idle" \/ panicked)
    /\ [](\A d \in Devices : (pc[d] = "done" /\ result[d] = ResOk) => AllOpsCompleted(d))

\* a transaction of two delays is about to return Ok
C16_Witness ==
    \E d \in Devices :
        /\ pc[d] = "done" /\ result[d] = ResOk
        /\ Len(operations[d]) = 2
        /\ \A j \in DOMAIN operations[d] : operations[d][j].kind = "DelayUs"
        /\ Len(log) = 7

BusAndDelayCalls == {"read", "write", "transfer", "transfer_in_place", "flush", "delay_us"}
PinCalls == {"set_low", "set_high"}

\* C17: every bus and delay call of a device is made after the successful
\* set_low and before the set_high of its running transaction, with its CS
\* line low; and the CS pin of a device is driven only by that device while
\* it holds the bus, so no other device's CS is toggled during a transaction.
C17_CsHeldThroughout ==
    /\ [](\A i \in DOMAIN log : log[i].call \in BusAndDelayCalls =>
            LET d == log[i].dev IN
            /\ i > 1
            /\ LogOf(d)[1] = Call(d, "set_low", OK, 0, 0)
            /\ \A k \in 1..i : ~(log[k].dev = d /\ log[k].call = "set_high")
            /\ \A k \in 1..i : log[k].dev = d)
    /\ [][\A d \in Devices :
            /\ (Len(log') = Len(log) + 1 /\ log'[Len(log')].dev = d
                   /\ log'[Len(log')].call \in BusAndDelayCalls)
                 => (cs_line[d] = "low" /\ borrow = d)
            /\ cs_line'[d] # cs_line[d] => (borrow = d /\ pc[d] \in {"set_low", "set_high"})
            /\ (Len(log') = Len(log) + 1 /\ log'[Len(log')].dev = d
                   /\ log'[Len(log')].call \in PinCalls)
                 => borrow = d]_vars

\* a device is in the middle of its operations with its CS low while the
\* other device's CS is high
C17_Witness ==
    \E d \in Devices :
        /\ pc[d] = "ops" /\ idx[d] = 2 /\ cs_line[d] = "low" /\ borrow = d
        /\ Len(log) = 2 /\ log[2].call = "transfer"
        /\ \E e \in Devices : e # d /\ pc[e] = "idle" /\ cs_line[e] = "high"

\* C18: the bus is borrowed before CS is asserted, and an entry that is
\* refused because the bus is already borrowed makes no pin, bus or delay
\* call: it changes neither any CS line, nor the borrow, nor the position,
\* operations, results and issued calls of the transaction in progress.
C18_RefusedEntryFrame ==
    /\ [](\A d \in Devices : pc[d] = "set_low" => (borrow = d /\ LogOf(d) = <<>>))
    /\ [][\A d \in Devices :
            (borrow # 0 /\ BorrowMut(d)) =>
                /\ panicked'
                /\ UNCHANGED <<log, cs_line, borrow, pc, operations, idx,
                               op_res, flush_res, cs_res, result>>]_vars

\* an entry was refused while the holder was about to call set_high: the
\* holder's CS is still low, the refused device's CS is high
C18_Witness ==
    /\ panicked
    /\ \E d \in Devices :
        /\ borrow = d /\ pc[d] = "set_high" /\ cs_line[d] = "low"
        /\ Len(log) = 3 /\ LogOf(d) = log
        /\ \E e \in Devices : e # d /\ pc[e] = "idle" /\ cs_line[e] = "high"

====
